---- MODULE Spec2Model ----
(***************************************************************************)
(* Model of backend/ai_agents/agents.py: AgentConfig resolution, the       *)
(* AgentResponse envelope, BaseAgent (setup_mcp, execute,                  *)
(* get_capabilities) and its two specializations SearchAgent and ChatAgent.*)
(*                                                                         *)
(* The external collaborators are inputs of the actions:                   *)
(*   - the process environment (os.environ) is the variable env, chosen    *)
(*     in the initial state;                                               *)
(*   - MultiServerMCPClient(server_configs) either returns a client or     *)
(*     raises an Exception (ConnectOutcomes);                              *)
(*   - the awaited llm.ainvoke(messages) either returns a message whose    *)
(*     content is a string, returns a message whose content is not a       *)
(*     string, raises an Exception whose str() is a given text, or ends    *)
(*     with a BaseException that is not an Exception, such as the          *)
(*     CancelledError of a cancelled task (ModelOutcomes).                 *)
(* An awaited execute call is a frame in inFlight between the step that    *)
(* runs up to the await and the step that runs from it to the return.      *)
(***************************************************************************)
EXTENDS Naturals, Sequences, FiniteSets, Bags, TLC

VARIABLES env, config, agents, inFlight, returned

vars == <<env, config, agents, inFlight, returned>>

(* ------------------------------ bounds --------------------------------- *)

\* Number of agent objects constructed in one run.
NumAgents == 2

\* Number of execute calls suspended at the model round trip at one time.
MaxInFlight == 2

(* --------------------------- optional values --------------------------- *)

\* Python's None, and a present string value (Optional[str]).
None == [some |-> FALSE, val |-> ""]

Some(s) == [some |-> TRUE, val |-> s]

\* Truthiness of an Optional[str]: None and "" are falsy.
TruthyStr(o) == o.some /\ o.val # ""

(* ------------------------------ environment ---------------------------- *)

EnvNames == {"LITELLM_BASE_URL", "AI_MODEL_NAME", "LITELLM_AUTH_TOKEN",
             "CODEXHUB_MCP_AUTH_TOKEN"}

\* os.getenv(name, default): the variable's value when it is set (the empty
\* string included), the default otherwise.
getenv(name, default) == IF env[name].some THEN env[name] ELSE default

DefaultBaseUrl == "https://litellm-docker-545630944929.us-central1.run.app"

DefaultModelName == "gemini-2.5-pro"

DefaultApiKey == "dummy-key"

(* ------------------------------ AgentConfig ---------------------------- *)

\* Variant of AgentConfig that reads the credential with os.getenv and no
\* default: the field stays None when the variable is absent.
AgentConfig_KeyWithoutDefault(api_base_url, model_name, api_key) ==
    [api_base_url |-> IF api_base_url = None
                      THEN getenv("LITELLM_BASE_URL", Some(DefaultBaseUrl))
                      ELSE api_base_url,
     model_name   |-> IF model_name = None
                      THEN getenv("AI_MODEL_NAME", Some(DefaultModelName))
                      ELSE model_name,
     api_key      |-> IF api_key = None
                      THEN getenv("LITELLM_AUTH_TOKEN", None)
                      ELSE api_key]

\* AgentConfig(api_base_url, model_name, api_key) after __post_init__: a
\* field is loaded from the environment only when it is None.
AgentConfig(api_base_url, model_name, api_key) ==
    [api_base_url |-> IF api_base_url = None
                      THEN getenv("LITELLM_BASE_URL", Some(DefaultBaseUrl))
                      ELSE api_base_url,
     model_name   |-> IF model_name = None
                      THEN getenv("AI_MODEL_NAME", Some(DefaultModelName))
                      ELSE model_name,
     api_key      |-> IF api_key = None
                      THEN getenv("LITELLM_AUTH_TOKEN", Some(DefaultApiKey))
                      ELSE api_key]

(* ------------------------------ AgentResponse -------------------------- *)

\* metadata when the caller passes none: the field's default, {}.
EmptyMetadata == [keys |-> {}, model |-> None, tools_used |-> 0]

\* AgentResponse(success, content, metadata, error): the fields as given; the
\* class declares no validator relating them.
AgentResponse(success, content, metadata, error) ==
    [success |-> success, content |-> content, metadata |-> metadata,
     error |-> error]

(* ------------------------------ BaseAgent ------------------------------ *)

BaseSystemPrompt == "You are a helpful AI assistant."

SearchSystemPrompt ==
    "Research assistant with web search tools. Use search for current info, cite sources."

ChatSystemPrompt ==
    "Friendly conversational AI. Natural conversations, explanations, analysis. Helpful, harmless, honest."

\* The absent tool-provider connection (self.mcp_client = None).
NoClient == [some |-> FALSE, servers |-> <<>>]

\* MultiServerMCPClient(server_configs), when it returns.
MultiServerMCPClient(server_configs) == [some |-> TRUE, servers |-> server_configs]

\* BaseAgent.__init__(config, system_prompt); class_name is the constructed
\* class.
BaseAgent(class_name, cfg, system_prompt) ==
    [class_name |-> class_name, config |-> cfg, system_prompt |-> system_prompt,
     mcp_client |-> NoClient, mcp_tools |-> <<>>]

ConnectOutcomes == {"ok", "raise"}

\* Variant of setup_mcp whose except branch does not unset the client.
setup_mcp_KeepsClientOnFailure(self, server_configs, connect) ==
    IF connect = "ok"
    THEN [raised |-> FALSE,
          self |-> [self EXCEPT !.mcp_client = MultiServerMCPClient(server_configs),
                                !.mcp_tools = <<>>]]
    ELSE [raised |-> FALSE, self |-> self]

\* Variant of setup_mcp that binds the provider's tools on success instead
\* of resetting the tool list to empty.
setup_mcp_LoadsTools(self, server_configs, connect) ==
    IF connect = "ok"
    THEN [raised |-> FALSE,
          self |-> [self EXCEPT !.mcp_client = MultiServerMCPClient(server_configs),
                                !.mcp_tools = <<"web_search">>]]
    ELSE [raised |-> FALSE,
          self |-> [self EXCEPT !.mcp_client = NoClient]]

\* BaseAgent.setup_mcp(server_configs) on agent self, with the outcome of
\* the client's construction: on success the client is stored and the tool
\* list reset to empty; on an Exception the client is unset and the tool list
\* left as it is.  The Exception is caught: raised is FALSE on both paths.
setup_mcp(self, server_configs, connect) ==
    IF connect = "ok"
    THEN [raised |-> FALSE,
          self |-> [self EXCEPT !.mcp_client = MultiServerMCPClient(server_configs),
                                !.mcp_tools = <<>>]]
    ELSE [raised |-> FALSE,
          self |-> [self EXCEPT !.mcp_client = NoClient]]

\* BaseAgent.get_capabilities().
get_capabilities(self) ==
    IF self.mcp_client.some
    THEN <<"text_generation", "conversation", "mcp_enabled">>
    ELSE <<"text_generation", "conversation">>

\* The two-message exchange execute builds: the system message carrying the
\* agent's system prompt, then the user message carrying the prompt.
Messages(self, prompt) ==
    <<[role |-> "system", content |-> self.system_prompt],
      [role |-> "human", content |-> prompt]>>

\* The branch of execute taken before the await: the tool-aware path needs
\* use_tools, a truthy client and a non-empty tool list.
DispatchPath(self, use_tools) ==
    IF use_tools /\ self.mcp_client.some /\ Len(self.mcp_tools) > 0
    THEN "tools"
    ELSE "plain"

\* str(e) of the validation error AgentResponse raises when it is given the
\* content [{'type': 'text', 'text': '4'}], a list of content blocks, in place
\* of a string (as pydantic 2.13 words it).
ValidationErrorText ==
    "1 validation error for AgentResponse\ncontent\n  Input should be a valid string [type=string_type, input_value=[{'type': 'text', 'text': '4'}], input_type=list]\n    For further information visit https://errors.pydantic.dev/2.13/v/string_type"

\* How the awaited model call can end:
\*   content    it returns a message whose content is the string text;
\*   nonstring  it returns a message whose content is not a string, for which
\*              the construction of the success envelope raises a validation
\*              error e with str(e) = text;
\*   raise      it raises an Exception e with str(e) = text;
\*   cancel     it ends with a BaseException that is not an Exception: the
\*              task is cancelled at the await (task.cancel(), the timeout of
\*              asyncio.wait_for) and CancelledError is thrown into execute,
\*              or KeyboardInterrupt / SystemExit arrives.
ModelOutcomes ==
    {[kind |-> "content", text |-> "4"],
     [kind |-> "nonstring", text |-> ValidationErrorText],
     [kind |-> "raise", text |-> "Connection error."],
     [kind |-> "raise", text |-> ""],
     [kind |-> "cancel", text |-> ""]}

\* Variant of SuccessMetadata that counts the configured servers instead of
\* the bound tools.
SuccessMetadata_CountsServers(self, use_tools) ==
    [keys |-> {"model", "tools_used"},
     model |-> self.config.model_name,
     tools_used |-> IF use_tools THEN Len(self.mcp_client.servers) ELSE 0]

\* metadata of a successful response.
SuccessMetadata(self, use_tools) ==
    [keys |-> {"model", "tools_used"},
     model |-> self.config.model_name,
     tools_used |-> IF use_tools THEN Len(self.mcp_tools) ELSE 0]

\* Variant of execute_return whose failure envelope carries str(e) in
\* content and no error.
execute_return_ErrorInContent(self, use_tools, outcome) ==
    CASE outcome.kind = "content" ->
            [raised |-> FALSE,
             response |-> <<AgentResponse(TRUE, outcome.text,
                                          SuccessMetadata(self, use_tools), None)>>]
      [] outcome.kind \in {"nonstring", "raise"} ->
            [raised |-> FALSE,
             response |-> <<AgentResponse(FALSE, outcome.text, EmptyMetadata, None)>>]
      [] outcome.kind = "cancel" ->
            [raised |-> TRUE, response |-> <<>>]

\* execute from the await to its end, on agent self as it is when the call
\* resumes.  response holds the AgentResponse execute returns, and is empty
\* when execute raises instead.  A string content gives the success envelope;
\* a non-string content makes the envelope's construction raise inside the try
\* block; every Exception is caught by `except Exception` and turned into the
\* failure envelope with error = str(e).  A BaseException that is not an
\* Exception is not caught: it leaves execute and no envelope is returned.
execute_return(self, use_tools, outcome) ==
    CASE outcome.kind = "content" ->
            [raised |-> FALSE,
             response |-> <<AgentResponse(TRUE, outcome.text,
                                          SuccessMetadata(self, use_tools), None)>>]
      [] outcome.kind \in {"nonstring", "raise"} ->
            [raised |-> FALSE,
             response |-> <<AgentResponse(FALSE, "", EmptyMetadata,
                                          Some(outcome.text))>>]
      [] outcome.kind = "cancel" ->
            [raised |-> TRUE, response |-> <<>>]

(* ------------------------------ SearchAgent ---------------------------- *)

WebSearchUrl == "https://mcp.codexhub.ai/web/mcp"

\* The single server description setup_web_search_mcp builds.
WebSearchServers(mcp_token) ==
    <<[type |-> "http", url |-> WebSearchUrl, x_team_key |-> mcp_token]>>

\* Variant of setup_web_search_mcp that does not compare the token with the
\* placeholder.
setup_web_search_mcp_AnyToken(self, connect) ==
    LET mcp_token == getenv("CODEXHUB_MCP_AUTH_TOKEN", None)
    IN  IF TruthyStr(mcp_token)
        THEN setup_mcp(self, WebSearchServers(mcp_token.val), connect)
        ELSE [raised |-> FALSE, self |-> self]

\* SearchAgent.setup_web_search_mcp(): setup_mcp is called only for a token
\* that is set, non-empty and not the placeholder.
setup_web_search_mcp(self, connect) ==
    LET mcp_token == getenv("CODEXHUB_MCP_AUTH_TOKEN", None)
    IN  IF TruthyStr(mcp_token) /\ mcp_token.val # "dummy-key"
        THEN setup_mcp(self, WebSearchServers(mcp_token.val), connect)
        ELSE [raised |-> FALSE, self |-> self]

\* SearchAgent.__init__(config): the base constructor, then the web search
\* setup.
SearchAgent(cfg, connect) ==
    setup_web_search_mcp(BaseAgent("SearchAgent", cfg, SearchSystemPrompt), connect)

(* ------------------------------ ChatAgent ------------------------------ *)

\* Variant of ChatAgent's constructor that also runs the web search setup.
ChatAgent_WithWebSearch(cfg) ==
    setup_web_search_mcp(BaseAgent("ChatAgent", cfg, ChatSystemPrompt), "ok")

\* ChatAgent.__init__(config): the base constructor only.
ChatAgent(cfg) ==
    [raised |-> FALSE, self |-> BaseAgent("ChatAgent", cfg, ChatSystemPrompt)]

(* ------------------------------ state ---------------------------------- *)

\* Values of an explicit constructor argument or of an environment variable:
\* not given / not set, the empty string, a non-empty string.
OptStrings == {None, Some(""), Some("x")}

\* Values of the tool-provider auth token in the environment.
TokenValues == {None, Some(""), Some("dummy-key"), Some("team-key")}

Prompts == {"What is 2+2?"}

\* An environment with the three configuration variables unset and the auth
\* token t.
TokenEnv(t) == [n \in EnvNames |-> IF n = "CODEXHUB_MCP_AUTH_TOKEN" THEN t ELSE None]

\* The environment of the runs that resolve configurations: each
\* configuration variable unset, empty or non-empty.
ConfigEnvs ==
    {[n \in EnvNames |->
        CASE n = "LITELLM_BASE_URL" -> b
          [] n = "AI_MODEL_NAME" -> m
          [] n = "LITELLM_AUTH_TOKEN" -> k
          [] OTHER -> None] : b \in OptStrings, m \in OptStrings, k \in OptStrings}

Empty == /\ config = <<>>
         /\ agents = <<>>
         /\ inFlight = EmptyBag
         /\ returned = <<>>

\* A run whose environment holds a valid auth token.
Init == env = TokenEnv(Some("team-key")) /\ Empty

\* A run under any value of the auth token.
InitConstructed == env \in {TokenEnv(t) : t \in TokenValues} /\ Empty

InitConfig == env \in ConfigEnvs /\ Empty

(* ------------------------------ actions -------------------------------- *)

\* config = AgentConfig(api_base_url, model_name, api_key)
NewAgentConfig(b, m, k) ==
    /\ config' = <<AgentConfig(b, m, k)>>
    /\ UNCHANGED <<env, agents, inFlight, returned>>

\* A constructor call on the current config: when it returns, the new object
\* is kept; a constructor that raised would leave no object behind.
Construct(result) ==
    /\ Len(agents) < NumAgents
    /\ ~result.raised
    /\ agents' = Append(agents, result.self)
    /\ UNCHANGED <<env, config, inFlight, returned>>

\* BaseAgent(config)
NewBaseAgent ==
    /\ config # <<>>
    /\ Construct([raised |-> FALSE,
                  self |-> BaseAgent("BaseAgent", config[1], BaseSystemPrompt)])

\* SearchAgent(config)
NewSearchAgent(connect) ==
    /\ config # <<>>
    /\ Construct(SearchAgent(config[1], connect))

\* ChatAgent(config)
NewChatAgent ==
    /\ config # <<>>
    /\ Construct(ChatAgent(config[1]))

\* agents[i].setup_mcp(server_configs), called by the owner of the agent.
SetupMcp(i, server_configs, connect) ==
    /\ i \in 1..Len(agents)
    /\ agents' = [agents EXCEPT ![i] = setup_mcp(agents[i], server_configs, connect).self]
    /\ UNCHANGED <<env, config, inFlight, returned>>

\* Variant of ExecuteBegin in which execute binds the provider's tools on the
\* agent when tools are requested and a client is present.
ExecuteBegin_BindsTools(i, prompt, use_tools) ==
    /\ i \in 1..Len(agents)
    /\ BagCardinality(inFlight) < MaxInFlight
    /\ inFlight' = inFlight (+) SetToBag({[agent |-> i,
                                           messages |-> Messages(agents[i], prompt),
                                           use_tools |-> use_tools,
                                           path |-> DispatchPath(agents[i], use_tools)]})
    /\ agents' = IF use_tools /\ agents[i].mcp_client.some
                 THEN [agents EXCEPT ![i].mcp_tools = <<"web_search">>]
                 ELSE agents
    /\ UNCHANGED <<env, config, returned>>

\* agents[i].execute(prompt, use_tools) up to the await of the model call.
ExecuteBegin(i, prompt, use_tools) ==
    /\ i \in 1..Len(agents)
    /\ BagCardinality(inFlight) < MaxInFlight
    /\ inFlight' = inFlight (+) SetToBag({[agent |-> i,
                                           messages |-> Messages(agents[i], prompt),
                                           use_tools |-> use_tools,
                                           path |-> DispatchPath(agents[i], use_tools)]})
    /\ UNCHANGED <<env, config, agents, returned>>

\* Variant of ExecuteResume in which execute drops the agent's client when
\* the model call fails.
ExecuteResume_DropsClientOnError(f, outcome) ==
    /\ BagIn(f, inFlight)
    /\ inFlight' = inFlight (-) SetToBag({f})
    /\ returned' = <<[agent |-> f.agent, use_tools |-> f.use_tools,
                      path |-> f.path, outcome |-> outcome,
                      result |-> execute_return(agents[f.agent], f.use_tools, outcome)]>>
    /\ agents' = IF outcome.kind = "content"
                 THEN agents
                 ELSE [agents EXCEPT ![f.agent].mcp_client = NoClient]
    /\ UNCHANGED <<env, config>>

\* The awaited model call of frame f ends with outcome and execute runs to
\* its end: it returns an envelope or, for a cancel outcome, raises.  returned
\* keeps how the call that ended last ended.
ExecuteResume(f, outcome) ==
    /\ BagIn(f, inFlight)
    /\ inFlight' = inFlight (-) SetToBag({f})
    /\ returned' = <<[agent |-> f.agent, use_tools |-> f.use_tools,
                      path |-> f.path, outcome |-> outcome,
                      result |-> execute_return(agents[f.agent], f.use_tools, outcome)]>>
    /\ UNCHANGED <<env, config, agents>>

DirectServers == {WebSearchServers("team-key")}

\* The two steps of an execute call.
ExecuteSteps ==
    \/ \E i \in 1..NumAgents, p \in Prompts, u \in BOOLEAN : ExecuteBegin(i, p, u)
    \/ \E f \in BagToSet(inFlight), o \in ModelOutcomes : ExecuteResume(f, o)

\* The two specializations, direct setup_mcp calls on them and execute calls.
\* (A BaseAgent object differs from a ChatAgent object only in its class name
\* and system prompt; it is constructed in NextConstructed.)
Next ==
    \/ NewAgentConfig(None, None, None)
    \/ \E connect \in ConnectOutcomes : NewSearchAgent(connect)
    \/ NewChatAgent
    \/ \E i \in 1..NumAgents, s \in DirectServers, c \in ConnectOutcomes : SetupMcp(i, s, c)
    \/ ExecuteSteps

\* Constructors, execute and direct setup_mcp calls, in any order, in an
\* environment that holds a valid auth token.
Spec == Init /\ [][Next]_vars

\* The three constructors and execute calls; setup_mcp is called only by
\* SearchAgent's constructor.
NextConstructed ==
    \/ NewAgentConfig(None, None, None)
    \/ NewBaseAgent
    \/ \E connect \in ConnectOutcomes : NewSearchAgent(connect)
    \/ NewChatAgent
    \/ ExecuteSteps

\* Constructors and execute only, under any value of the auth token.
SpecConstructed == InitConstructed /\ [][NextConstructed]_vars

NextConfig == \E b \in OptStrings, m \in OptStrings, k \in OptStrings : NewAgentConfig(b, m, k)

\* Configuration resolution alone, over every explicit argument and every
\* value of the three configuration variables.
SpecConfig == InitConfig /\ [][NextConfig]_vars

(* ------------------------------ properties ----------------------------- *)

\* The AgentResponse invariant of the data model.
EnvelopeOk(r) ==
    /\ r.success => r.error = None
    /\ ~r.success => (r.content = "" /\ r.error.some)

BaseCapabilities == <<"text_generation", "conversation">>

HasCapability(self, c) ==
    \E n \in 1..Len(get_capabilities(self)) : get_capabilities(self)[n] = c

\* The token in the environment is one for which the web search setup is
\* skipped: absent, empty or the placeholder.
TokenMissing ==
    env["CODEXHUB_MCP_AUTH_TOKEN"] \in {None, Some(""), Some("dummy-key")}

\* The execute call that ended last returned an envelope (it did not raise).
Returned == returned # <<>> /\ ~returned[1].result.raised

\* The envelope returned last.
Resp == returned[1].result.response[1]

\* The execute call that ended last returned an envelope and was made on
\* agent i.
ReturnedFrom(i) == Returned /\ returned[1].agent = i

\* C1: whenever the model call inside execute raised an Exception, execute
\* returned (no exception escaped) an envelope with success = false, empty
\* content and a non-empty error string.
C1_RaiseGivesNonEmptyError ==
    (returned # <<>> /\ returned[1].outcome.kind = "raise") =>
        /\ ~returned[1].result.raised
        /\ ~Resp.success
        /\ Resp.content = ""
        /\ Resp.error.some
        /\ Resp.error.val # ""

\* C2: every response execute returned, after any sequence of constructions,
\* setup_mcp calls and execute calls and for any model outcome, satisfies the
\* envelope invariant: success implies no error; failure implies empty
\* content and an error that is present.
C2_ReturnedEnvelopeInvariant ==
    /\ returned # <<>> => Len(returned[1].result.response) = IF returned[1].result.raised THEN 0 ELSE 1
    /\ Returned => EnvelopeOk(Resp)

\* C2 witness: a failure envelope returned by an agent on which setup_mcp
\* had established a connection.
C2_Witness ==
    /\ Returned
    /\ ~Resp.success
    /\ returned[1].outcome.kind = "nonstring"
    /\ agents[returned[1].agent].mcp_client.some

\* C3 as stated: after resolution all three fields are non-empty, whatever
\* the explicit arguments and the environment.
C3_AllFieldsNonEmpty ==
    config # <<>> =>
        /\ TruthyStr(config[1].api_base_url)
        /\ TruthyStr(config[1].model_name)
        /\ TruthyStr(config[1].api_key)

\* One field of a resolution step: it is never None, an explicit value is
\* kept, and it is empty only when the explicit value is the empty string or
\* the field was unset and its environment variable is set to the empty
\* string.
FieldResolved(given, name, field) ==
    /\ field.some
    /\ given # None => field = given
    /\ field.val = "" => (given = Some("") \/ (given = None /\ env[name] = Some("")))

\* C3 amended: every resolution step yields three fields that are present
\* (never None); a field is non-empty unless its explicit value is the empty
\* string or it was unset and its environment variable is set to the empty
\* string.
C3_FieldsPresentAndEmptyOnlyIfGivenEmpty ==
    [][\A b \in OptStrings, m \in OptStrings, k \in OptStrings :
          NewAgentConfig(b, m, k) =>
              /\ FieldResolved(b, "LITELLM_BASE_URL", config'[1].api_base_url)
              /\ FieldResolved(m, "AI_MODEL_NAME", config'[1].model_name)
              /\ FieldResolved(k, "LITELLM_AUTH_TOKEN", config'[1].api_key)]_vars

\* C3 witness: a resolved configuration in which one default fired (model
\* name unset, its variable absent) and one field is empty because its
\* variable is set to the empty string.
C3_Witness ==
    /\ config # <<>>
    /\ env["AI_MODEL_NAME"] = None
    /\ config[1].model_name = Some(DefaultModelName)
    /\ env["LITELLM_AUTH_TOKEN"] = Some("")
    /\ config[1].api_key = Some("")
    /\ config[1].api_base_url = Some("x")

\* C4: a ChatAgent, under any token in the environment, at construction and
\* after any number of execute calls, has exactly the two base capabilities,
\* has no tool-provider connection and dispatches on the plain path.
C4_ChatAgentToolsDisabled ==
    \A i \in 1..Len(agents) :
        agents[i].class_name = "ChatAgent" =>
            /\ get_capabilities(agents[i]) = BaseCapabilities
            /\ agents[i].mcp_client = NoClient
            /\ DispatchPath(agents[i], TRUE) = "plain"
            /\ \A f \in BagToSet(inFlight) : f.agent = i => f.path = "plain"

\* C4 witness: with a valid token in the environment, a ChatAgent has
\* returned from an execute call made with use_tools = true.
C4_Witness ==
    /\ env["CODEXHUB_MCP_AUTH_TOKEN"] = Some("team-key")
    /\ Returned
    /\ returned[1].use_tools
    /\ agents[returned[1].agent].class_name = "ChatAgent"

\* C5: a SearchAgent constructed with the token absent, empty or equal to
\* the placeholder has no connection, lacks "mcp_enabled", takes the plain
\* path with use_tools = true, and for every model outcome returns with
\* use_tools = true the response it returns with use_tools = false.
C5_SearchAgentWithoutTokenDegrades ==
    TokenMissing =>
        \A i \in 1..Len(agents) :
            agents[i].class_name = "SearchAgent" =>
                /\ agents[i].mcp_client = NoClient
                /\ ~HasCapability(agents[i], "mcp_enabled")
                /\ DispatchPath(agents[i], TRUE) = "plain"
                /\ \A f \in BagToSet(inFlight) : f.agent = i => f.path = "plain"
                /\ ReturnedFrom(i) => returned[1].path = "plain"
                /\ \A o \in ModelOutcomes :
                      execute_return(agents[i], TRUE, o) = execute_return(agents[i], FALSE, o)

\* C5 witness: under the placeholder token a SearchAgent has returned a
\* successful response to an execute call made with use_tools = true.
C5_Witness ==
    /\ env["CODEXHUB_MCP_AUTH_TOKEN"] = Some("dummy-key")
    /\ Returned
    /\ returned[1].use_tools
    /\ Resp.success
    /\ agents[returned[1].agent].class_name = "SearchAgent"

\* C6: a SearchAgent built with a valid token whose connection was
\* established has "mcp_enabled" among its capabilities, and each successful
\* response it returns reports tools_used equal to the number of tools bound
\* on it when use_tools is true and 0 when use_tools is false.
C6_EnabledSearchAgentReportsBoundTools ==
    \A i \in 1..Len(agents) :
        (agents[i].class_name = "SearchAgent" /\ agents[i].mcp_client.some) =>
            /\ ~TokenMissing
            /\ HasCapability(agents[i], "mcp_enabled")
            /\ (ReturnedFrom(i) /\ Resp.success) =>
                  Resp.metadata.tools_used =
                      IF returned[1].use_tools THEN Len(agents[i].mcp_tools) ELSE 0

\* C6 witness: an enabled SearchAgent has returned a successful response to
\* an execute call made with use_tools = true.
C6_Witness ==
    /\ Returned
    /\ returned[1].use_tools
    /\ Resp.success
    /\ agents[returned[1].agent].class_name = "SearchAgent"
    /\ agents[returned[1].agent].mcp_client.some
    /\ inFlight = EmptyBag

\* An agent in tools-disabled mode that still answers: no connection, no
\* "mcp_enabled", plain dispatch, and for every outcome of the model call
\* other than the call being cancelled execute returns an envelope that
\* satisfies the envelope invariant.
DisabledAndAnswering(self) ==
    /\ self.mcp_client = NoClient
    /\ ~HasCapability(self, "mcp_enabled")
    /\ \A u \in BOOLEAN :
          /\ DispatchPath(self, u) = "plain"
          /\ \A o \in ModelOutcomes :
                o.kind # "cancel" =>
                    /\ ~execute_return(self, u, o).raised
                    /\ EnvelopeOk(execute_return(self, u, o).response[1])

\* C7: when establishing the connection raises, whether in a direct
\* setup_mcp call on any constructed agent or in the construction of a
\* SearchAgent with a valid token, nothing propagates, and the agent is left
\* without connection, without "mcp_enabled", dispatching on the plain path
\* and answering with valid envelopes.
C7_SetupFailureIsAbsorbed ==
    /\ \A i \in 1..Len(agents), s \in DirectServers :
          /\ ~setup_mcp(agents[i], s, "raise").raised
          /\ DisabledAndAnswering(setup_mcp(agents[i], s, "raise").self)
    /\ (config # <<>> /\ ~TokenMissing) =>
          /\ ~SearchAgent(config[1], "raise").raised
          /\ DisabledAndAnswering(SearchAgent(config[1], "raise").self)

\* C7 witness: with a valid token a SearchAgent is without connection (its
\* setup raised), has returned a successful response to an execute call
\* made with use_tools = true, and another agent holds a connection that a
\* failing setup_mcp call would have to unset.
C7_Witness ==
    /\ ~TokenMissing
    /\ \E j \in 1..Len(agents) : agents[j].mcp_client.some
    /\ Returned
    /\ returned[1].use_tools
    /\ returned[1].path = "plain"
    /\ Resp.success
    /\ agents[returned[1].agent].class_name = "SearchAgent"
    /\ agents[returned[1].agent].mcp_client = NoClient

\* C8 as stated: no step moves an agent from tools-enabled to
\* tools-disabled, no step changes the connection or tool list of a
\* constructed agent, and only a SearchAgent is ever tools-enabled.
C8_ToolsStateFixedAfterConstruction ==
    [][\A i \in 1..Len(agents) :
          /\ agents[i].mcp_client.some => agents'[i].mcp_client.some
          /\ agents'[i].mcp_client = agents[i].mcp_client
          /\ agents'[i].mcp_tools = agents[i].mcp_tools
          /\ agents'[i].mcp_client.some => agents'[i].class_name = "SearchAgent"]_vars

\* C8 amended: execute never changes an agent; the tool list of a constructed
\* agent never changes; the connection of a constructed agent changes only
\* in a setup_mcp call, which may be made on any agent at any time and sets
\* the connection when the client is established and unsets it when
\* establishing it raises.
C8_OnlySetupMcpChangesToolsState ==
    [][/\ (inFlight' # inFlight \/ returned' # returned) => agents' = agents
       /\ \A i \in 1..Len(agents) :
              /\ agents'[i].mcp_tools = agents[i].mcp_tools
              /\ agents'[i].mcp_client # agents[i].mcp_client =>
                    \E s \in DirectServers, c \in ConnectOutcomes : SetupMcp(i, s, c)
              /\ \A s \in DirectServers :
                    /\ SetupMcp(i, s, "ok") => agents'[i].mcp_client.some
                    /\ SetupMcp(i, s, "raise") => ~agents'[i].mcp_client.some]_vars

\* C8 witness: a ChatAgent is tools-enabled (by a direct setup_mcp call)
\* while a SearchAgent built with a valid token is tools-disabled.
C8_Witness ==
    \E i \in 1..Len(agents), j \in 1..Len(agents) :
        /\ agents[i].class_name = "ChatAgent"
        /\ agents[i].mcp_client.some
        /\ agents[j].class_name = "SearchAgent"
        /\ ~agents[j].mcp_client.some

\* How execute(prompt, use_tools) on agent self ends when it is run alone
\* and the model call ends with o.
AloneResult(self, use_tools, o) ==
    CASE o.kind = "content" ->
            [raised |-> FALSE,
             response |-> <<[success |-> TRUE, content |-> o.text,
                             metadata |-> [keys |-> {"model", "tools_used"},
                                           model |-> self.config.model_name,
                                           tools_used |-> IF use_tools
                                                          THEN Len(self.mcp_tools)
                                                          ELSE 0],
                             error |-> None]>>]
      [] o.kind \in {"nonstring", "raise"} ->
            [raised |-> FALSE,
             response |-> <<[success |-> FALSE, content |-> "",
                             metadata |-> [keys |-> {}, model |-> None, tools_used |-> 0],
                             error |-> Some(o.text)]>>]
      [] o.kind = "cancel" ->
            [raised |-> TRUE, response |-> <<>>]

\* C9: a step of an execute call (up to the await, or from it to the return)
\* leaves the environment, the configuration and every agent unchanged, and
\* the way a call ends (the response it returns, or its being cancelled),
\* whatever other calls were in flight on the same or other agents, is the
\* way the call ends when run alone on its agent with the same model outcome.
C9_ConcurrentExecuteIndependent ==
    [][(inFlight' # inFlight \/ returned' # returned) =>
          /\ agents' = agents /\ config' = config /\ env' = env
          /\ \A f \in BagToSet(inFlight), o \in ModelOutcomes :
                ExecuteResume(f, o) =>
                    /\ returned'[1].result =
                          AloneResult(agents[f.agent], f.use_tools, o)
                    /\ f.path = DispatchPath(agents[f.agent], f.use_tools)]_vars

\* C9 witness: a call has returned while another call on the same agent and
\* a call on a different agent are still suspended at the model round trip.
C9_Witness ==
    /\ returned # <<>>
    /\ \E f \in BagToSet(inFlight), g \in BagToSet(inFlight) :
          /\ f.agent = returned[1].agent
          /\ g.agent # returned[1].agent

\* C10: in every state reached through the constructors and setup_mcp the
\* bound tool list of every agent is empty, no execute call takes the
\* tool-aware path, and every successful response reports tools_used = 0.
C10_ToolListAlwaysEmpty ==
    /\ \A i \in 1..Len(agents) : agents[i].mcp_tools = <<>>
    /\ \A f \in BagToSet(inFlight) : f.path = "plain"
    /\ returned # <<>> => returned[1].path = "plain"
    /\ (Returned /\ Resp.success) => Resp.metadata.tools_used = 0

\* C10 witness: a call with use_tools = true on a SearchAgent with an active
\* connection took the plain path and returned a successful response, after
\* a direct setup_mcp call had also enabled an agent of another class.
C10_Witness ==
    /\ Returned
    /\ returned[1].use_tools
    /\ returned[1].path = "plain"
    /\ Resp.success
    /\ agents[returned[1].agent].class_name = "SearchAgent"
    /\ agents[returned[1].agent].mcp_client.some
    /\ \E j \in 1..Len(agents) :
          agents[j].class_name # "SearchAgent" /\ agents[j].mcp_client.some

====
